---- MODULE Spec2Model ----
(***************************************************************************)
(* axios-jwt-flow (src/lib/index.js): an axios client for the OAuth 2.0    *)
(* JWT bearer token flow.  The model covers the Client's token, the        *)
(* request interceptor with its module-level AsyncLock, fetchToken() and    *)
(* setToken(), with wall-clock time as a variable.                         *)
(*                                                                         *)
(* JavaScript runs each synchronous segment to completion, so an action is *)
(* one such segment: a handler up to its next await / network round trip.  *)
(***************************************************************************)
EXTENDS Integers, Sequences, FiniteSets, TLC

\* ------------------------------------------------------------------ bounds
NumRequests == 2          \* authorized requests issued through client.instance
MaxTime == 1              \* the clock runs from 0 to MaxTime seconds
MaxCallerOps == 1         \* setToken() and fetchToken() calls the caller makes itself

\* ------------------------------------------------------- program constants
DefaultExpiresIn == 300   \* 60 * 5
DefaultExpiryLeeway == 5

Requests == 1..NumRequests
Clients == {"A", "B"}
NoRequest == 0

\* --------------------------------------------------- JavaScript values
\* Values are tagged so that undefined, numbers, strings and objects can sit
\* in the same field, as they do in the program.
Undefined == [t |-> "undefined"]
Null == [t |-> "null"]
Num(n) == [t |-> "number", v |-> n]
Str(s) == [t |-> "string", v |-> s]
Obj(props) == [t |-> "object", props |-> props]

\* typeof x === 'object' (true of null as well)
TypeofObject(x) == x.t \in {"object", "null"}

\* Truthiness as used by || and &&: undefined, null, 0 and '' are falsy.
Truthy(x) ==
    CASE x.t = "undefined" -> FALSE
      [] x.t = "null" -> FALSE
      [] x.t = "number" -> x.v # 0
      [] x.t = "string" -> x.v # ""
      [] OTHER -> TRUE

\* a || b
JsOr(a, b) == IF Truthy(a) THEN a ELSE b

\* lhs >= rhs for a number lhs: undefined converts to NaN, and every
\* comparison with NaN is false.
JsGreaterEq(n, rhs) == IF rhs.t = "number" THEN n >= rhs.v ELSE FALSE

\* ---------------------------------------------------------------- tokens
\* this.token = token || {}
EmptyToken ==
    [access_token |-> Undefined, token_type |-> Undefined,
     instance_url |-> Undefined, expires_at |-> Undefined]

MkToken(id, expiresAt) ==
    [access_token |-> Str(id), token_type |-> Str("Bearer"),
     instance_url |-> Str("https://x"), expires_at |-> expiresAt]

\* Client.setToken(token)
setToken(token) == IF token = Undefined THEN EmptyToken ELSE token

\* ---------------------------------------------------------------- options
\* expiresIn: options.expiresIn || (60 * 5)
expiresInOption(configured) == JsOr(configured, Num(DefaultExpiresIn)).v

\* expiryLeeway: options.expiryLeeway || 5
expiryLeewayOption(configured) == JsOr(configured, Num(DefaultExpiryLeeway)).v

\* Client.isTokenExpired(): (floor(now) + expiryLeeway) >= token.expires_at
isTokenExpired(tok, leeway, t) == JsGreaterEq(t + leeway, tok.expires_at)

\* The request configuration the interceptor returns: baseURL and the
\* Authorization header `${token_type} ${access_token}`.
AuthConfig(tok) ==
    [baseURL |-> tok.instance_url,
     Authorization |-> <<tok.token_type, " ", tok.access_token>>]

\* ----------------------------------------------------------------- errors
TokenExpired == Obj([name |-> Str("TokenExpired"), message |-> Str("Token is expired")])
InvalidGrant(message) == Obj([name |-> Str("InvalidGrant"), message |-> message])
TypeError == Obj([name |-> Str("TypeError")])
CallbackError == Obj([name |-> Str("CallbackError")])

\* What the transport rejects with: error.response is set (to undefined when
\* no response arrived) and response.data is the parsed body.
NetworkError == Obj([name |-> Str("Error"), response |-> Undefined])
HttpError(data) == Obj([name |-> Str("Error"), response |-> Obj([data |-> data])])
GrantBody == Obj([error |-> Str("invalid_grant"), error_description |-> Str("bad signature")])

TransportErrors == {NetworkError, HttpError(GrantBody), HttpError(Null)}

\* obj[key], undefined when obj has no such property
Get(obj, key) == IF key \in DOMAIN obj.props THEN obj.props[key] ELSE Undefined

\* hasNestedProperty(obj, ...args): "true", "false", or "throws" when
\* hasOwnProperty is called on null (typeof null === 'object').
RECURSIVE hasNestedProperty(_, _)
hasNestedProperty(obj, args) ==
    IF args = <<>> THEN "true"
    ELSE IF ~TypeofObject(obj) THEN "false"
    ELSE IF obj.t = "null" THEN "throws"
    ELSE IF Head(args) \notin DOMAIN obj.props THEN "false"
    ELSE hasNestedProperty(obj.props[Head(args)], Tail(args))

\* The .catch handler of fetchToken: what the returned promise rejects with.
catchHandler(error) ==
    LET has == hasNestedProperty(error, <<"response", "data", "error">>) IN
    IF has = "throws" THEN TypeError
    ELSE IF has = "true" /\ Get(Get(Get(error, "response"), "data"), "error") = Str("invalid_grant")
         THEN InvalidGrant(Get(Get(Get(error, "response"), "data"), "error_description"))
    ELSE error

\* ------------------------------------------------------------- fetchToken
\* const expiresAt = Math.floor(new Date() / 1000) + this.options.expiresIn
computeExpiresAt(t, expiresIn) == t + expiresIn

\* What the token endpoint may answer to call number id.
ResponseExpiresAt == {Undefined, Num(0), Num(6)}
Responses(id) ==
    {[kind |-> "token", data |-> MkToken(id, e)] : e \in ResponseExpiresAt}
    \cup {[kind |-> "text", data |-> Str("OK")]}
    \cup {[kind |-> "error", error |-> e] : e \in TransportErrors}

\* Variant: the computed expiry always replaces the endpoint's.
thenHandlerComputed(data, expiresAt) == [data EXCEPT !.expires_at = Num(expiresAt)]

\* The .then handler: token.expires_at = token.expires_at || expiresAt
thenHandler(data, expiresAt) ==
    [data EXCEPT !.expires_at = JsOr(data.expires_at, Num(expiresAt))]

\* Variant: a failure drops the held token.
fetchTokenSettleClearing(held, resp, expiresAt) ==
    IF resp.kind = "token"
    THEN [token |-> setToken(thenHandler(resp.data, expiresAt)),
          outcome |-> [kind |-> "token", token |-> thenHandler(resp.data, expiresAt)]]
    ELSE [token |-> EmptyToken,
          outcome |-> [kind |-> "error",
                       error |-> catchHandler(IF resp.kind = "text" THEN TypeError ELSE resp.error)]]

\* Variant: the fetched token is returned without being stored.
fetchTokenSettleUnstored(held, resp, expiresAt) ==
    CASE resp.kind = "token" ->
            [token |-> held,
             outcome |-> [kind |-> "token", token |-> thenHandler(resp.data, expiresAt)]]
      [] resp.kind = "text" ->
            [token |-> held, outcome |-> [kind |-> "error", error |-> catchHandler(TypeError)]]
      [] OTHER ->
            [token |-> held, outcome |-> [kind |-> "error", error |-> catchHandler(resp.error)]]

\* The promise chain of fetchToken once the transport has answered: the
\* Client's token afterwards, and what the returned promise settles with.
\* Assigning a property on a string body throws in strict mode, and the
\* .catch handler sees that TypeError as it sees a transport error.
fetchTokenSettle(held, resp, expiresAt) ==
    CASE resp.kind = "token" ->
            [token |-> setToken(thenHandler(resp.data, expiresAt)),
             outcome |-> [kind |-> "token", token |-> thenHandler(resp.data, expiresAt)]]
      [] resp.kind = "text" ->
            [token |-> held, outcome |-> [kind |-> "error", error |-> catchHandler(TypeError)]]
      [] OTHER ->
            [token |-> held, outcome |-> [kind |-> "error", error |-> catchHandler(resp.error)]]

\* ------------------------------------------------------------ interceptor
\* Variants: autoRefresh is not consulted; the lock is taken whatever the
\* first check says.
interceptorBranchNoOptOut(expired, autoRefresh) == IF expired THEN "refresh" ELSE "pass"
interceptorBranchAlwaysLock(expired, autoRefresh) ==
    IF autoRefresh THEN "refresh" ELSE IF expired THEN "throw" ELSE "pass"

\* Variant: an expired token is used when autoRefresh is disabled.
interceptorBranchNeverThrows(expired, autoRefresh) ==
    IF expired /\ autoRefresh THEN "refresh" ELSE "pass"

\* The branch requestInterceptor takes on the first isTokenExpired() check.
interceptorBranch(expired, autoRefresh) ==
    IF expired
    THEN IF autoRefresh THEN "refresh" ELSE "throw"
    ELSE "pass"

\* Variant: no second check under the lock.
lockedFnNoRecheck(expired) == "fetch"

\* The function run under the lock: fetch only if the token is (still) expired.
lockedFn(expired) == IF expired THEN "fetch" ELSE "skip"

\* Variant: the function runs at once whoever holds the key.
acquireRunsNowUnlocked(lockHolder) == TRUE

\* AsyncLock.acquire(key, fn): fn runs at once when nobody holds the key,
\* and is queued otherwise.  The key is a module constant, so every Client
\* of the process shares the one queue.
acquireRunsNow(lockHolder) == lockHolder = NoRequest

\* Variant: the rejection is swallowed.
awaitOutcomeSwallowed(result) == "continue"

\* await lock.acquire(...): a rejection is thrown on, anything else is the
\* value of token.
awaitOutcome(result) == IF result.kind = "error" THEN "throw" ELSE "continue"

\* Variant: done() is reached on fulfilment only.
lockReleasedOnSuccess(outcome) == outcome.kind \in {"token", "undefined"}

\* AsyncLock calls done() when the promise of the function it ran settles,
\* fulfilled (with a token or with nothing) or rejected.
lockReleased(outcome) == outcome.kind \in {"token", "undefined", "error"}

\* Variant: the key stays with the request whose function has finished.
lockAfterDoneKept(r, q) == r

\* Who holds the key after AsyncLock's done(): the head of the queue, whose
\* function runs next, or nobody.
lockAfterDone(r, q) == IF q = <<>> THEN NoRequest ELSE Head(q)

\* token && oauthClient.onRefresh && oauthClient.onRefresh(token)
callsOnRefresh(result, hasCallback) == result.kind = "token" /\ hasCallback

\* Variant: onRefresh is given the token the Client holds.
onRefreshArgumentHeld(result, held) == held

\* onRefresh(token): the value lock.acquire() resolved with.
onRefreshArgument(result, held) == result.token

\* ------------------------------------------------------------------ state
VARIABLES
    now,            \* Math.floor(new Date() / 1000)
    configured,     \* [client -> options given to the constructor]
    options,        \* [client -> this.options]
    token,          \* [client -> this.token]
    clientOf,       \* [request -> the Client whose instance it goes through]
    pc,             \* [request -> where its interceptor stands]
    startedAt,      \* [request -> the time its fetchToken() call was made]
    expiresAt,      \* [request -> expiresAt local of its fetchToken() call]
    response,       \* [request -> the answer of the token endpoint its handlers just saw]
    result,         \* [request -> what lock.acquire() settled with]
    config,         \* [request -> the configuration returned for dispatch]
    error,          \* [request -> what the interceptor threw]
    holder,         \* the request whose function runs under the lock
    queue,          \* AsyncLock's queue for the key
    endpointCalls,  \* calls made to the token endpoint so far
    callId,         \* [request -> number of the endpoint call it made, 0 if none]
    joined,         \* [request -> endpoint call in flight when it queued, 0 if none]
    notified,       \* [request -> onRefresh was invoked by it]
    notifiedWith,   \* [request -> the argument it invoked onRefresh with]
    direct,         \* [client -> the caller's own fetchToken() call]
    callerOps       \* setToken() and fetchToken() calls the caller has made itself

vars == <<now, configured, options, token, clientOf, pc, startedAt, expiresAt, response, result,
          config, error, holder, queue, endpointCalls, callId, joined, notified,
          notifiedWith, direct, callerOps>>

NoResult == [kind |-> "none"]
NoDirect == [pc |-> "idle", expiresAt |-> 0, id |-> 0]

ConstructorTokens == {Undefined, MkToken(0, Undefined), MkToken(0, Num(3)), MkToken(0, Num(6))}
CachedTokens == {MkToken(-1, Num(6))}

\* The <<expiresIn, expiryLeeway>> given to the constructor: none, zeroes,
\* and short ones.
ConfiguredLifetimes ==
    {<<Undefined, Undefined>>, <<Num(0), Num(0)>>, <<Num(3), Num(2)>>}

ConstructorOptions ==
    {[autoRefresh |-> a, onRefresh |-> o, expiresIn |-> l[1], expiryLeeway |-> l[2],
      token |-> t] :
        a \in BOOLEAN, o \in BOOLEAN, l \in ConfiguredLifetimes, t \in ConstructorTokens}

\* Which Client each request goes through: all through one Client, or the
\* last one through another Client of the same process.
ClientAssignments ==
    {[r \in Requests |-> "A"], [r \in Requests |-> IF r = NumRequests THEN "B" ELSE "A"]}

\* Client.constructor: this.options
constructorOptions(given) ==
    [autoRefresh |-> given.autoRefresh,
     expiresIn |-> expiresInOption(given.expiresIn),
     expiryLeeway |-> expiryLeewayOption(given.expiryLeeway)]

Expired(c) == isTokenExpired(token[c], options[c].expiryLeeway, now)

Init ==
    /\ now = 0
    /\ \E given \in ConstructorOptions :
         /\ configured = [c \in Clients |-> given]
         /\ options = [c \in Clients |-> constructorOptions(given)]
         /\ token = [c \in Clients |-> setToken(given.token)]
    /\ clientOf \in ClientAssignments
    /\ pc = [r \in Requests |-> "idle"]
    /\ startedAt = [r \in Requests |-> 0]
    /\ expiresAt = [r \in Requests |-> 0]
    /\ response = [r \in Requests |-> NoResult]
    /\ result = [r \in Requests |-> NoResult]
    /\ config = [r \in Requests |-> Undefined]
    /\ error = [r \in Requests |-> Undefined]
    /\ holder = NoRequest
    /\ queue = <<>>
    /\ endpointCalls = 0
    /\ callId = [r \in Requests |-> 0]
    /\ joined = [r \in Requests |-> 0]
    /\ notified = [r \in Requests |-> FALSE]
    /\ notifiedWith = [r \in Requests |-> Undefined]
    /\ direct = [c \in Clients |-> NoDirect]
    /\ callerOps = 0

\* ---------------------------------------------------------------- actions
\* The clock advances.
Tick ==
    /\ now < MaxTime
    /\ now' = now + 1
    /\ UNCHANGED <<configured, options, token, clientOf, pc, startedAt, expiresAt, response, result, config,
                   error, holder, queue, endpointCalls, callId, joined, notified, notifiedWith,
                   direct, callerOps>>

\* Request r starts a fetchToken() under the lock (lines 44-45, 136-152).
StartFetch(r) ==
    /\ holder' = r
    /\ pc' = [pc EXCEPT ![r] = "fetching"]
    /\ startedAt' = [startedAt EXCEPT ![r] = now]
    /\ expiresAt' = [expiresAt EXCEPT ![r] = computeExpiresAt(now, options[clientOf[r]].expiresIn)]
    /\ endpointCalls' = endpointCalls + 1
    /\ callId' = [callId EXCEPT ![r] = endpointCalls + 1]

\* client.instance.request(...): the interceptor runs up to its await.
Intercept(r) ==
    /\ pc[r] = "idle"
    /\ LET c == clientOf[r]
           branch == interceptorBranch(Expired(c), options[c].autoRefresh)
       IN
       CASE branch = "pass" ->
              /\ pc' = [pc EXCEPT ![r] = "dispatched"]
              /\ config' = [config EXCEPT ![r] = AuthConfig(token[c])]
              /\ UNCHANGED <<error, holder, queue, startedAt, expiresAt, endpointCalls,
                             callId, joined, response, result>>
         [] branch = "throw" ->
              /\ pc' = [pc EXCEPT ![r] = "failed"]
              /\ error' = [error EXCEPT ![r] = TokenExpired]
              /\ UNCHANGED <<config, holder, queue, startedAt, expiresAt, endpointCalls,
                             callId, joined, response, result>>
         [] OTHER ->
              IF acquireRunsNow(holder)
              THEN IF lockedFn(Expired(c)) = "fetch"
                   THEN /\ StartFetch(r)
                        /\ UNCHANGED <<config, error, queue, joined, response, result>>
                   ELSE /\ holder' = r
                        /\ pc' = [pc EXCEPT ![r] = "settled"]
                        /\ result' = [result EXCEPT ![r] = [kind |-> "undefined"]]
                        /\ UNCHANGED <<config, error, queue, startedAt, expiresAt,
                                       endpointCalls, callId, joined, response>>
              ELSE /\ pc' = [pc EXCEPT ![r] = "waiting"]
                   /\ queue' = Append(queue, r)
                   /\ joined' = [joined EXCEPT ![r] =
                         IF pc[holder] = "fetching" THEN callId[holder] ELSE 0]
                   /\ UNCHANGED <<config, error, holder, startedAt, expiresAt,
                                  endpointCalls, callId, response, result>>
    /\ UNCHANGED <<now, configured, options, token, clientOf, notified, notifiedWith, direct, callerOps>>

\* The token endpoint answers request r's call: the .then/.catch handlers of
\* fetchToken run (lines 153-168).  The lock is still held: done() runs in
\* a later microtask.
FetchSettle(r) ==
    /\ pc[r] = "fetching"
    /\ \E resp \in Responses(callId[r]) :
         LET c == clientOf[r]
             settled == fetchTokenSettle(token[c], resp, expiresAt[r])
         IN /\ token' = [token EXCEPT ![c] = settled.token]
            /\ response' = [response EXCEPT ![r] = resp]
            /\ result' = [result EXCEPT ![r] = settled.outcome]
    /\ pc' = [pc EXCEPT ![r] = "settled"]
    /\ startedAt' = [startedAt EXCEPT ![r] = 0]
    /\ expiresAt' = [expiresAt EXCEPT ![r] = 0]
    /\ UNCHANGED <<now, configured, options, clientOf, config, error, holder,
                   queue, endpointCalls, callId, joined, notified, notifiedWith, direct, callerOps>>

\* AsyncLock's done(), called once the function of holder r has finished
\* (its promise has settled, or it returned nothing): r's lock.acquire()
\* settles, and the next queued function runs at once, under the lock.
LockDone(r) ==
    /\ pc[r] = "settled"
    /\ holder = r
    /\ lockReleased(result[r])
    /\ response' = [response EXCEPT ![r] = NoResult]
    /\ IF queue = <<>>
       THEN /\ holder' = lockAfterDone(r, queue)
            /\ pc' = [pc EXCEPT ![r] = "resuming"]
            /\ UNCHANGED <<queue, result, startedAt, expiresAt, endpointCalls, callId>>
       ELSE LET w == Head(queue) IN
            /\ holder' = lockAfterDone(r, queue)
            /\ queue' = Tail(queue)
            /\ IF lockedFn(Expired(clientOf[w])) = "fetch"
               THEN /\ pc' = [pc EXCEPT ![r] = "resuming", ![w] = "fetching"]
                    /\ startedAt' = [startedAt EXCEPT ![w] = now]
                    /\ expiresAt' = [expiresAt EXCEPT ![w] =
                          computeExpiresAt(now, options[clientOf[w]].expiresIn)]
                    /\ endpointCalls' = endpointCalls + 1
                    /\ callId' = [callId EXCEPT ![w] = endpointCalls + 1]
                    /\ UNCHANGED result
               ELSE /\ pc' = [pc EXCEPT ![r] = "resuming", ![w] = "settled"]
                    /\ result' = [result EXCEPT ![w] = [kind |-> "undefined"]]
                    /\ UNCHANGED <<startedAt, expiresAt, endpointCalls, callId>>
    /\ UNCHANGED <<now, configured, options, token, clientOf, config, error, joined,
                   notified, notifiedWith, direct, callerOps>>

\* The interceptor continues after its await (lines 43-61); onRefresh, when
\* it is called, returns or throws.
Resume(r) ==
    /\ pc[r] = "resuming"
    /\ LET c == clientOf[r] IN
       IF awaitOutcome(result[r]) = "throw"
       THEN /\ pc' = [pc EXCEPT ![r] = "failed"]
            /\ error' = [error EXCEPT ![r] = result[r].error]
            /\ UNCHANGED <<config, notified, notifiedWith>>
       ELSE IF callsOnRefresh(result[r], configured[c].onRefresh)
            THEN /\ notified' = [notified EXCEPT ![r] = TRUE]
                 /\ notifiedWith' = [notifiedWith EXCEPT ![r] =
                       onRefreshArgument(result[r], token[c])]
                 /\ \/ /\ pc' = [pc EXCEPT ![r] = "dispatched"]
                       /\ config' = [config EXCEPT ![r] = AuthConfig(token[c])]
                       /\ UNCHANGED error
                    \/ /\ pc' = [pc EXCEPT ![r] = "failed"]
                       /\ error' = [error EXCEPT ![r] = CallbackError]
                       /\ UNCHANGED config
            ELSE /\ pc' = [pc EXCEPT ![r] = "dispatched"]
                 /\ config' = [config EXCEPT ![r] = AuthConfig(token[c])]
                 /\ UNCHANGED <<error, notified, notifiedWith>>
    /\ UNCHANGED <<now, configured, options, token, clientOf, startedAt, expiresAt, response, result, holder,
                   queue, endpointCalls, callId, joined, direct, callerOps>>

\* The Clients some request goes through.
InUse == {clientOf[r] : r \in Requests}

\* The caller calls client.fetchToken() itself (lines 134-152): no lock.
DirectFetch(c) ==
    /\ c \in InUse
    /\ direct[c].pc # "fetching"
    /\ callerOps < MaxCallerOps
    /\ direct' = [direct EXCEPT ![c] =
          [pc |-> "fetching", expiresAt |-> computeExpiresAt(now, options[c].expiresIn),
           id |-> endpointCalls + 1]]
    /\ endpointCalls' = endpointCalls + 1
    /\ callerOps' = callerOps + 1
    /\ UNCHANGED <<now, configured, options, token, clientOf, pc, startedAt, expiresAt, response, result, config,
                   error, holder, queue, callId, joined, notified, notifiedWith>>

\* The token endpoint answers the caller's own fetchToken() (lines 153-168).
DirectSettle(c) ==
    /\ direct[c].pc = "fetching"
    /\ \E resp \in Responses(direct[c].id) :
         LET settled == fetchTokenSettle(token[c], resp, direct[c].expiresAt)
         IN /\ token' = [token EXCEPT ![c] = settled.token]
            /\ direct' = [direct EXCEPT ![c] =
                  [pc |-> IF settled.outcome.kind = "token" THEN "resolved" ELSE "rejected",
                   expiresAt |-> 0, id |-> direct[c].id]]
    /\ UNCHANGED <<now, configured, options, clientOf, pc, startedAt, expiresAt, response, result, config, error,
                   holder, queue, endpointCalls, callId, joined, notified, notifiedWith, callerOps>>

\* The caller calls client.setToken(tok) (lines 115-117).
SetToken(c) ==
    /\ c \in InUse
    /\ callerOps < MaxCallerOps
    /\ callerOps' = callerOps + 1
    /\ \E tok \in CachedTokens : token' = [token EXCEPT ![c] = setToken(tok)]
    /\ UNCHANGED <<now, configured, options, clientOf, pc, startedAt, expiresAt, response, result, config, error,
                   holder, queue, endpointCalls, callId, joined, notified, notifiedWith, direct>>

\* The requests and the clock.
Next ==
    \/ Tick
    \/ \E r \in Requests : Intercept(r)
    \/ \E r \in Requests : FetchSettle(r)
    \/ \E r \in Requests : LockDone(r)
    \/ \E r \in Requests : Resume(r)

Spec == Init /\ [][Next]_vars

\* The same, where every token-endpoint call is answered and every
\* continuation that is ready to run (a promise callback) does run.
Fairness ==
    \A r \in Requests :
        /\ WF_vars(FetchSettle(r))
        /\ WF_vars(LockDone(r))
        /\ WF_vars(Resume(r))

SpecLive == Init /\ [][Next]_vars /\ Fairness

\* The caller's own fetchToken() and setToken() calls, around one request
\* and the clock.
CallerRequests == {1}

NextCaller ==
    \/ Tick
    \/ \E r \in CallerRequests : Intercept(r)
    \/ \E r \in CallerRequests : FetchSettle(r)
    \/ \E r \in CallerRequests : LockDone(r)
    \/ \E r \in CallerRequests : Resume(r)
    \/ \E c \in Clients : DirectFetch(c)
    \/ \E c \in Clients : DirectSettle(c)
    \/ \E c \in Clients : SetToken(c)

SpecCaller == Init /\ [][NextCaller]_vars

\* ------------------------------------------------------------------ claims
Finished(r) == pc[r] \in {"dispatched", "failed"}

\* The requests of the same Client that were queued on the lock while the
\* endpoint call made by request f was in flight.
Waiters(f) ==
    {w \in Requests \ {f} : clientOf[w] = clientOf[f] /\ callId[f] # 0 /\ joined[w] = callId[f]}

\* The option the caller configured, with the documented default when none
\* was configured.
ConfiguredOr(given, default) == IF given = Undefined THEN default ELSE given.v

C2_WaitersShareFailure ==
    \A f \in Requests : \A w \in Waiters(f) :
        result[f].kind = "error" =>
            /\ callId[w] = 0
            /\ Finished(w) => (pc[w] = "failed" /\ error[w] = result[f].error)

\* C3: for each Client at most one token-endpoint call started by the
\* interceptor is in flight.
C3_AtMostOneFetchInFlight ==
    \A c \in Clients :
        Cardinality({r \in Requests : clientOf[r] = c /\ pc[r] = "fetching"}) <= 1

\* A request's call is in flight after the call of another request of the
\* same Client failed while it waited.
C3_Witness ==
    \E f \in Requests : \E w \in Waiters(f) :
        /\ result[f].kind = "error"
        /\ pc[w] = "fetching"

\* C4: a request that finds the token expired with autoRefresh disabled
\* fails with TokenExpired; no call is made to the token endpoint, the request
\* is not dispatched and the token is left as it was.
C4_ExpiredWithoutAutoRefresh ==
    [][\A r \in Requests :
          (/\ pc[r] = "idle" /\ pc'[r] # "idle"
           /\ Expired(clientOf[r])
           /\ ~configured[clientOf[r]].autoRefresh) =>
              /\ pc'[r] = "failed"
              /\ error'[r] = TokenExpired
              /\ config'[r] = Undefined
              /\ endpointCalls' = endpointCalls
              /\ callId'[r] = 0
              /\ holder' = holder /\ queue' = queue
              /\ token' = token]_vars

\* A request has failed with TokenExpired and no call was made.
C4_Witness ==
    \E r \in Requests :
        /\ pc[r] = "failed"
        /\ error[r] = TokenExpired
        /\ ~configured[clientOf[r]].autoRefresh
        /\ endpointCalls = 0

\* C5: a request that finds the token not expired is dispatched at once with
\* the held token's instance_url and "<token_type> <access_token>"; it makes
\* no call to the token endpoint and leaves the lock and its queue alone.
C5_ValidTokenPassesThrough ==
    [][\A r \in Requests :
          (/\ pc[r] = "idle" /\ pc'[r] # "idle"
           /\ ~Expired(clientOf[r])) =>
              /\ pc'[r] = "dispatched"
              /\ config'[r].baseURL = token[clientOf[r]].instance_url
              /\ config'[r].Authorization =
                   <<token[clientOf[r]].token_type, " ", token[clientOf[r]].access_token>>
              /\ endpointCalls' = endpointCalls
              /\ callId'[r] = 0
              /\ holder' = holder /\ queue' = queue
              /\ token' = token]_vars

\* A request was dispatched, without having touched the lock, with the token
\* that another request's refresh has stored while that request still holds
\* the lock.
C5_Witness ==
    \E r \in Requests :
        /\ holder # NoRequest /\ holder # r
        /\ pc[holder] = "settled"
        /\ result[holder].kind = "token"
        /\ pc[r] = "dispatched"
        /\ result[r] = NoResult
        /\ config[r].Authorization[3] = result[holder].token.access_token

\* C6: a token without expires_at is always expired, so a request that finds
\* one fails with TokenExpired (autoRefresh disabled) or goes for the lock to
\* fetch (autoRefresh enabled); it is not dispatched with that token.
C6_AbsentTokenAlwaysExpired ==
    [][\A r \in Requests :
          (/\ pc[r] = "idle" /\ pc'[r] # "idle"
           /\ token[clientOf[r]].expires_at = Undefined) =>
              /\ Expired(clientOf[r])
              /\ IF configured[clientOf[r]].autoRefresh
                 THEN pc'[r] \in {"fetching", "waiting"}
                 ELSE pc'[r] = "failed" /\ error'[r] = TokenExpired]_vars

\* C7: isTokenExpired() is true exactly when now + expiryLeeway >= expires_at,
\* expiryLeeway being the configured value, 5 when none was configured.
C7_ExpiredIffLeewayReached ==
    \A c \in Clients :
        token[c].expires_at.t = "number" =>
            (Expired(c) <=>
                now + ConfiguredOr(configured[c].expiryLeeway, DefaultExpiryLeeway)
                    >= token[c].expires_at.v)

\* C8: a successful fetch stores the response's expires_at when the response
\* has one, and otherwise the time the fetch was started plus the configured
\* expiresIn, 300 when none was configured.
C8_StoredExpiresAt ==
    [][\A r \in Requests :
          (pc[r] = "fetching" /\ pc'[r] = "settled" /\ result'[r].kind = "token") =>
              token'[clientOf[r]].expires_at =
                  IF response'[r].data.expires_at # Undefined
                  THEN response'[r].data.expires_at
                  ELSE Num(startedAt[r]
                           + ConfiguredOr(configured[clientOf[r]].expiresIn, DefaultExpiresIn))]_vars

\* C9: a fetchToken() that fails, made by the interceptor or by the caller,
\* leaves every Client's token as it was.
C9_FailedFetchKeepsToken ==
    [][/\ \A r \in Requests :
            (pc[r] = "fetching" /\ pc'[r] = "settled" /\ result'[r].kind = "error") =>
                token' = token
       /\ \A c \in Clients :
            (direct[c].pc = "fetching" /\ direct'[c].pc = "rejected") =>
                token' = token]_vars

\* A Client that was constructed with a token still holds it after a fetch by
\* the interceptor and a fetch by the caller have both failed.
C9_Witness ==
    \E r \in Requests :
        /\ pc[r] = "settled"
        /\ result[r].kind = "error"
        /\ direct[clientOf[r]].pc = "rejected"
        /\ configured[clientOf[r]].token # Undefined
        /\ token[clientOf[r]] = configured[clientOf[r]].token

\* C10: a request whose own fetch failed fails with the error that
\* fetchToken() rejected with, and is not dispatched.
C10_FailedRefreshFailsRequest ==
    \A r \in Requests :
        (callId[r] # 0 /\ result[r].kind = "error" /\ Finished(r)) =>
            /\ pc[r] = "failed"
            /\ error[r] = result[r].error
            /\ config[r] = Undefined

\* A request has failed with the InvalidGrant that its own fetch was
\* rejected with.
C10_Witness ==
    \E r \in Requests :
        /\ callId[r] # 0
        /\ pc[r] = "failed"
        /\ result[r] = [kind |-> "error", error |-> InvalidGrant(Str("bad signature"))]
        /\ error[r] = InvalidGrant(Str("bad signature"))
        /\ config[r] = Undefined

\* The parsed body of a failed response, undefined when no response arrived.
FailureBody(e) ==
    IF Get(e, "response").t = "object" THEN Get(Get(e, "response"), "data") ELSE Undefined

\* The body is an object that carries error = "invalid_grant".
CarriesInvalidGrant(body) ==
    /\ body.t = "object"
    /\ "error" \in DOMAIN body.props
    /\ body.props.error = Str("invalid_grant")

\* C11: a fetch whose endpoint call failed is rejected with InvalidGrant
\* carrying the body's error_description when the body carries
\* error = "invalid_grant", and with the transport's error, unchanged, in
\* every other case (no response, no body, another error value).
C11_FailureClassification ==
    [][\A r \in Requests :
          (pc[r] = "fetching" /\ pc'[r] = "settled" /\ response'[r].kind = "error") =>
              result'[r] =
                  [kind |-> "error",
                   error |->
                      IF CarriesInvalidGrant(FailureBody(response'[r].error))
                      THEN InvalidGrant(Get(FailureBody(response'[r].error), "error_description"))
                      ELSE response'[r].error]]_vars

\* C12: the lock is released when the fetch made under it completes, on
\* success and on failure; so, every endpoint call being answered, a request
\* that waits for the lock eventually holds it and eventually completes
\* (is dispatched or fails).
C12_WaitersAcquireAndComplete ==
    \A r \in Requests :
        /\ (pc[r] = "waiting") ~> (holder = r)
        /\ (pc[r] = "waiting") ~> Finished(r)

\* A request that waited for the lock during a fetch that failed has held
\* the lock for a fetch of its own and has completed.
C12_Witness ==
    \E f \in Requests : \E w \in Waiters(f) :
        /\ result[f].kind = "error"
        /\ callId[w] # 0
        /\ Finished(w)
        /\ holder = NoRequest

\* The requests in AsyncLock's queue.
Queued == {queue[i] : i \in DOMAIN queue}

\* C13: when a request invokes onRefresh, its fetch has stored the token (the
\* Client holds the token that fetch returned, or the token of a later
\* fetch) and the request no longer holds the lock nor waits for it, so the
\* lock is free for the others whatever onRefresh does.
C13_OnRefreshOutsideLock ==
    [][\A r \in Requests :
          (~notified[r] /\ notified'[r]) =>
              /\ result[r].kind = "token"
              /\ \/ token[clientOf[r]] = result[r].token
                 \/ \E w \in Requests :
                       /\ callId[w] > callId[r]
                       /\ result[w].kind = "token"
                       /\ token[clientOf[r]] = result[w].token
              /\ holder # r /\ holder' # r
              /\ r \notin Queued
              /\ token' = token]_vars

\* A request that waited for the lock was dispatched although the onRefresh
\* of the request that fetched has thrown.
C13_Witness ==
    \E r \in Requests : \E w \in Waiters(r) :
        /\ notified[r]
        /\ error[r] = CallbackError
        /\ pc[w] = "dispatched"
        /\ config[w] = AuthConfig(result[r].token)

\* C14: when the onRefresh called by request r throws, only r fails and the
\* token is left as it is; a request of the same Client issued afterwards,
\* while the token r fetched is not expired, is dispatched with that token's
\* credentials and no call is made to the token endpoint.
C14_FailingOnRefreshKeepsToken ==
    [][\A r \in Requests :
          /\ (error[r] # CallbackError /\ error'[r] = CallbackError) =>
                /\ token' = token
                /\ endpointCalls' = endpointCalls
                /\ \A w \in Requests \ {r} : pc'[w] = pc[w] /\ error'[w] = error[w]
          /\ \A w \in Requests :
                (/\ error[r] = CallbackError
                 /\ clientOf[w] = clientOf[r]
                 /\ pc[w] = "idle" /\ pc'[w] # "idle"
                 /\ ~isTokenExpired(result[r].token, options[clientOf[r]].expiryLeeway, now)) =>
                    /\ pc'[w] = "dispatched"
                    /\ config'[w] = AuthConfig(result[r].token)
                    /\ endpointCalls' = endpointCalls
                    /\ token' = token]_vars

\* After the onRefresh of the request that fetched has thrown, another
\* request of the Client was dispatched, without the lock, with the fetched
\* token; the one call was made to the token endpoint.
C14_Witness ==
    \E r \in Requests : \E w \in Requests \ {r} :
        /\ error[r] = CallbackError
        /\ clientOf[w] = clientOf[r]
        /\ pc[w] = "dispatched"
        /\ result[w] = NoResult
        /\ config[w] = AuthConfig(result[r].token)
        /\ token[clientOf[r]] = result[r].token
        /\ endpointCalls = 1

\* C15: the lock belongs to the Client: a request that goes for a refresh
\* waits only behind a request of its own Client, never behind the refresh
\* of another Client.
C15_LockScopedToClient ==
    [][\A r \in Requests :
          (pc[r] = "idle" /\ pc'[r] = "waiting") =>
              clientOf[holder] = clientOf[r]]_vars

\* C16: the interceptor starts a token-endpoint call only as holder of the
\* lock and when the token is expired at that moment; a request that gets
\* the lock and finds the token not expired makes no call, and continues
\* without invoking onRefresh, dispatched with the token then held.
C16_RecheckUnderLock ==
    [][\A r \in Requests :
          /\ (callId'[r] # callId[r]) =>
                /\ Expired(clientOf[r])
                /\ holder' = r
                /\ pc'[r] = "fetching"
          /\ (holder # r /\ holder' = r /\ ~Expired(clientOf[r])) =>
                /\ callId'[r] = 0
                /\ endpointCalls' = endpointCalls
                /\ result'[r] = [kind |-> "undefined"]
          /\ (result[r].kind = "undefined" /\ pc[r] = "resuming" /\ pc'[r] # "resuming") =>
                /\ pc'[r] = "dispatched"
                /\ config'[r] = AuthConfig(token[clientOf[r]])
                /\ ~notified'[r]
                /\ callId'[r] = 0]_vars

\* A request of a Client with an onRefresh callback waited for the lock,
\* found the token refreshed, and was dispatched with it: it made no call
\* and did not invoke onRefresh.
C16_Witness ==
    \E f \in Requests : \E w \in Waiters(f) :
        /\ configured[clientOf[w]].onRefresh
        /\ result[w] = [kind |-> "undefined"]
        /\ pc[w] = "dispatched"
        /\ callId[w] = 0
        /\ ~notified[w]
        /\ config[w] = AuthConfig(result[f].token)

\* The option in effect: the default when the option was not configured or
\* was configured as 0.
InEffect(given, default) ==
    IF given = Undefined \/ given = Num(0) THEN default ELSE given.v

\* The fetch of request r settles successfully in this step.
FetchSucceeds(r) ==
    pc[r] = "fetching" /\ pc'[r] = "settled" /\ result'[r].kind = "token"

\* C17 as stated: the token a successful fetch stores is not expired at that
\* instant, and a token that is not expired becomes expired only by the
\* clock advancing.
C17_FetchedTokenValid ==
    [][/\ \A r \in Requests :
            FetchSucceeds(r) =>
                ~isTokenExpired(token'[clientOf[r]], options[clientOf[r]].expiryLeeway, now')
       /\ \A c \in Clients :
            (/\ ~isTokenExpired(token[c], options[c].expiryLeeway, now)
             /\ isTokenExpired(token'[c], options[c].expiryLeeway, now')) =>
                (now' = now + 1 /\ token' = token)]_vars

\* C17 amended: the token a successful fetch stores is not expired at that
\* instant exactly when its expiry (the endpoint's expires_at when that is
\* not 0, else the start of the fetch plus the expiresIn in effect) lies
\* beyond the current time plus the expiryLeeway in effect; a token that is
\* not expired becomes expired only by the clock advancing.
C17_FetchedTokenValidIfFresh ==
    [][/\ \A r \in Requests :
            FetchSucceeds(r) =>
                LET given == configured[clientOf[r]]
                    supplied == response'[r].data.expires_at
                    expiry == IF supplied # Undefined /\ supplied # Num(0)
                              THEN supplied.v
                              ELSE startedAt[r] + InEffect(given.expiresIn, DefaultExpiresIn)
                IN  ~isTokenExpired(token'[clientOf[r]], options[clientOf[r]].expiryLeeway, now')
                    <=> (now + InEffect(given.expiryLeeway, DefaultExpiryLeeway) < expiry)
       /\ \A c \in Clients :
            (/\ ~isTokenExpired(token[c], options[c].expiryLeeway, now)
             /\ isTokenExpired(token'[c], options[c].expiryLeeway, now')) =>
                (now' = now + 1 /\ token' = token)]_vars

\* After an earlier successful fetch, a fetch has stored a token that the
\* endpoint sent with an expires_at and that is expired on arrival.
C17_Witness ==
    \E r \in Requests :
        /\ pc[r] = "settled"
        /\ result[r].kind = "token"
        /\ token[clientOf[r]] = result[r].token
        /\ response[r].data.expires_at = Num(6)
        /\ Expired(clientOf[r])
        /\ \E f \in Requests \ {r} :
              /\ result[f].kind = "token"
              /\ callId[f] < callId[r]

\* Only the token of Client c differs in the next state, and it is tok.
OnlyTokenWritten(c, tok) == token' = [token EXCEPT ![c] = tok]

\* C18 as stated: whenever a Client's token changes, the change is made by a
\* successful fetch of a request that holds the lock.
C18_TokenWrittenUnderLock ==
    [][token' # token =>
          \E r \in Requests :
              /\ holder = r
              /\ FetchSucceeds(r)
              /\ OnlyTokenWritten(clientOf[r], result'[r].token)]_vars

\* C18 amended: whenever a Client's token changes, the change is made by a
\* successful fetch of a request that holds the lock, by a successful
\* fetchToken() of the caller, or by the caller's setToken(); the caller's
\* calls take no lock.
C18_TokenWrittenByFetchOrSetToken ==
    [][token' # token =>
          \/ \E r \in Requests :
                /\ holder = r
                /\ FetchSucceeds(r)
                /\ OnlyTokenWritten(clientOf[r], result'[r].token)
          \/ \E c \in Clients :
                /\ direct[c].pc = "fetching" /\ direct'[c].pc = "resolved"
                /\ OnlyTokenWritten(c, token'[c])
                /\ token'[c].access_token = Str(direct[c].id)
                /\ holder' = holder /\ queue' = queue
          \/ \E c \in Clients :
                /\ callerOps' = callerOps + 1 /\ direct' = direct
                /\ OnlyTokenWritten(c, token'[c])
                /\ token'[c] \in CachedTokens
                /\ holder' = holder /\ queue' = queue]_vars

\* The caller's setToken() has replaced the token while a request holds the
\* lock for a fetch that has already stored its token.
C18_Witness ==
    \E r \in Requests :
        /\ holder = r
        /\ pc[r] = "settled"
        /\ result[r].kind = "token"
        /\ token[clientOf[r]] \in CachedTokens

\* C19: a request invokes onRefresh exactly when the Client has the callback
\* and the request's own token-endpoint call succeeded, once, as it
\* continues after the lock, with the token that call returned; a request
\* whose fetch failed, which made no fetch, or whose Client has autoRefresh
\* disabled never invokes it.
C19_OnRefreshOncePerFetch ==
    [][\A r \in Requests :
          /\ (~notified[r] /\ notified'[r]) =>
                /\ pc[r] = "resuming" /\ Finished(r)'
                /\ options[clientOf[r]].autoRefresh
                /\ notifiedWith'[r] = result[r].token
                /\ notifiedWith'[r].access_token = Str(callId[r])
          /\ (pc[r] = "resuming" /\ pc'[r] # "resuming") =>
                (notified'[r] <=>
                    /\ configured[clientOf[r]].onRefresh
                    /\ callId[r] # 0
                    /\ result[r].kind = "token")
          /\ (pc[r] # "resuming" \/ notified[r]) =>
                (notified'[r] = notified[r] /\ notifiedWith'[r] = notifiedWith[r])
          /\ Finished(r) => pc'[r] = pc[r]]_vars

\* The request that fetched has invoked onRefresh with the token of its
\* call; a request that waited during that call has made a later call and
\* has not invoked onRefresh.
C19_Witness ==
    \E f \in Requests : \E w \in Waiters(f) :
        /\ notified[f]
        /\ notifiedWith[f] = result[f].token
        /\ notifiedWith[f].access_token = Str(callId[f])
        /\ callId[w] > callId[f]
        /\ ~notified[w]

\* C20 as stated: whenever the interceptor returns a configuration for
\* dispatch, the token whose credentials it carries is not expired at that
\* instant.
C20_NeverDispatchedExpired ==
    [][\A r \in Requests :
          (pc[r] # "dispatched" /\ pc'[r] = "dispatched") =>
              /\ config'[r] = AuthConfig(token[clientOf[r]])
              /\ ~Expired(clientOf[r])]_vars

\* C20 amended: a configuration returned without going through the lock
\* carries the credentials of a token that is not expired at that instant;
\* one returned after the lock carries the credentials of the token held at
\* that moment, expired or not.
C20_DispatchedUncheckedAfterLock ==
    [][\A r \in Requests :
          /\ (pc[r] = "idle" /\ pc'[r] = "dispatched") =>
                /\ config'[r] = AuthConfig(token[clientOf[r]])
                /\ ~Expired(clientOf[r])
          /\ (pc[r] # "dispatched" /\ pc'[r] = "dispatched") =>
                /\ pc[r] \in {"idle", "resuming"}
                /\ config'[r] = AuthConfig(token[clientOf[r]])
                /\ token' = token]_vars

\* A request found the token expired at time 1 (expires_at 6, leeway 5),
\* fetched a token that also has expires_at 6, and was dispatched with it.
C20_Witness ==
    \E r \in Requests :
        /\ configured[clientOf[r]].token = MkToken(0, Num(6))
        /\ options[clientOf[r]].expiryLeeway = DefaultExpiryLeeway
        /\ callId[r] # 0
        /\ result[r].kind = "token"
        /\ result[r].token.expires_at = Num(6)
        /\ pc[r] = "dispatched"
        /\ config[r] = AuthConfig(result[r].token)

====
